---- MODULE Spec2Model ----
(***************************************************************************)
(* Model of eml_extractor.py: the attachment extraction pipeline.          *)
(*                                                                         *)
(* Text is modelled as a sequence of one-character strings, so that the    *)
(* sanitizer, the filename derivation and the collision resolver are       *)
(* computed character by character as the Python code computes them.       *)
(* A path is the sequence of its components below the destination          *)
(* directory: << >> is the destination itself.                             *)
(***************************************************************************)
EXTENDS Integers, Sequences, FiniteSets, TLC

VARIABLES
    dirs,       \* directories that exist below (and including) the destination
    files,      \* function: path of a regular file |-> its bytes
    pc,         \* position of main(): "loop", "attachments", "done", "crashed"
    handled,    \* number of entries of eml_files handed to extract_attachments so far
    msg,        \* the message being processed by extract_attachments
    idx,        \* index of the next attachment of msg in the for loop
    out,        \* lines the latest step printed
    lastWrite,  \* the last call of save_attachment: target, whether it existed, outcome
    crash,      \* the statement whose exception escaped extract_attachments
    sanIn,      \* sanitizer harness: the input string
    sanOut,     \* sanitizer harness: sanitize_foldername(sanIn)
    sanOut2,    \* sanitizer harness: sanitize_foldername(sanOut)
    sanStage,   \* sanitizer harness: "input", "once", "twice"
    uqPath,     \* resolver harness: the path handed to generate_unique_filename
    uqExisting, \* resolver harness: the paths existing at call time
    uqResult,   \* resolver harness: the returned path
    uqStage,    \* resolver harness: "input", "called"
    nmPart,     \* filename harness: the part handed to get_safe_filename
    nmResult,   \* filename harness: the returned filename
    nmStage,    \* filename harness: "input", "called"
    workers     \* parallel run: for each worker, its message and its position

fsVars == <<dirs, files, pc, handled, msg, idx, out, lastWrite, crash>>
sanVars == <<sanIn, sanOut, sanOut2, sanStage>>
uqVars == <<uqPath, uqExisting, uqResult, uqStage>>
nmVars == <<nmPart, nmResult, nmStage>>
parVars == <<workers>>
vars == <<dirs, files, pc, handled, msg, idx, out, lastWrite, crash,
          sanIn, sanOut, sanOut2, sanStage, uqPath, uqExisting, uqResult, uqStage,
          nmPart, nmResult, nmStage, workers>>

\* Python's None, where a text is expected: not a text of the model, whose
\* elements are single characters
None == <<"None">>

SetMax(S) == CHOOSE x \in S : \A y \in S : y <= x

SetMin(S) == CHOOSE x \in S : \A y \in S : x <= y

(***************************************************************************)
(* Character classes.                                                      *)
(***************************************************************************)

\* the character class of illegal_chars (line 98)
IllegalChars ==
    {"/", "\\", "|", "[", "]", "{", "}", ":", "<", ">", "+", "=", ";", ",",
     "?", "!", "*", "\"", "~", "#", "$", "%", "&", "@", "'"}

\* the ASCII members of the regular expression class \s
Whitespace == {" ", "\t", "\n", "\r", "\f"}

\* the regular expression class \d
Digits == {"0", "1", "2", "3", "4", "5", "6", "7", "8", "9"}

\* the argument of strip (line 101)
StripChars == {".", " "}

\* the slice bound of line 105
NameLimit == 100

\* the placeholder of line 96
Unnamed == <<"u", "n", "n", "a", "m", "e", "d">>

\* the default of email_message.get('Subject', ...) (line 30)
NoSubject == <<"N", "o", " ", "S", "u", "b", "j", "e", "c", "t">>

(***************************************************************************)
(* sanitize_foldername, step by step.                                      *)
(***************************************************************************)

\* re.sub(illegal_chars, '_', name)
ReplaceIllegal(s) ==
    [i \in 1..Len(s) |-> IF s[i] \in IllegalChars THEN "_" ELSE s[i]]

\* str.strip(chars): drops the leading and the trailing characters of the set
Strip(s, chars) ==
    LET keep == {i \in 1..Len(s) : s[i] \notin chars}
    IN  IF keep = {} THEN << >> ELSE SubSeq(s, SetMin(keep), SetMax(keep))

\* re.sub(r'\s+', ' ', s): every maximal run of whitespace becomes one space
CollapseWhitespace(s) ==
    LET marked == [i \in 1..Len(s) |->
                      IF s[i] \in Whitespace
                      THEN IF i > 1 /\ s[i-1] \in Whitespace THEN "drop" ELSE " "
                      ELSE s[i]]
    IN  SelectSeq(marked, LAMBDA c : c # "drop")

\* the slice s[:n]
Truncate(s, n) == IF Len(s) <= n THEN s ELSE SubSeq(s, 1, n)

sanitize_foldername(name) ==
    IF name = << >>
    THEN Unnamed
    ELSE Truncate(CollapseWhitespace(Strip(ReplaceIllegal(name), StripChars)),
                  NameLimit)

(***************************************************************************)
(* pathlib: names, suffixes, joins.                                        *)
(***************************************************************************)

\* PurePath.suffix of a file name: from the last dot, unless that dot is the
\* first or the last character of the name
Suffix(name) ==
    LET dots == {i \in 1..Len(name) : name[i] = "."}
    IN  IF dots = {} THEN << >>
        ELSE IF 1 < SetMax(dots) /\ SetMax(dots) < Len(name)
             THEN SubSeq(name, SetMax(dots), Len(name))
             ELSE << >>

\* PurePath.stem: the name without its suffix
Stem(name) == SubSeq(name, 1, Len(name) - Len(Suffix(name)))

\* base / name; joining an empty component yields the base itself
Join(base, name) == IF name = << >> THEN base ELSE Append(base, name)

\* PurePath.parent
Parent(p) == IF p = << >> THEN << >> ELSE SubSeq(p, 1, Len(p) - 1)

\* PurePath.name
BaseName(p) == IF p = << >> THEN << >> ELSE p[Len(p)]

\* PurePath.with_name
WithName(p, name) == Append(Parent(p), name)

\* the decimal digits of a positive integer, as f"{counter}" prints them
RECURSIVE IntToStr(_)
IntToStr(n) ==
    LET d == <<"0", "1", "2", "3", "4", "5", "6", "7", "8", "9">>
    IN  IF n < 10 THEN <<d[n + 1]>> ELSE IntToStr(n \div 10) \o <<d[(n % 10) + 1]>>

\* the path and all its ancestors, which mkdir(parents=True) creates
Prefixes(p) == {SubSeq(p, 1, k) : k \in 0..Len(p)}

(***************************************************************************)
(* generate_unique_filename.  existing is the set of paths for which       *)
(* Path.exists() is true at call time.                                     *)
(***************************************************************************)

\* the candidate of line 19
Candidate(filepath, counter) ==
    WithName(filepath,
             Stem(BaseName(filepath)) \o <<"_">> \o IntToStr(counter)
                 \o Suffix(BaseName(filepath)))

\* the while loop of lines 18-22, entered with counter
RECURSIVE ProbeFrom(_, _, _)
ProbeFrom(filepath, existing, counter) ==
    IF Candidate(filepath, counter) \notin existing
    THEN Candidate(filepath, counter)
    ELSE ProbeFrom(filepath, existing, counter + 1)

FirstCandidateAlways(filepath, existing) == Candidate(filepath, 1)

generate_unique_filename(filepath, existing) ==
    IF filepath \notin existing
    THEN filepath
    ELSE ProbeFrom(filepath, existing, 1)

(***************************************************************************)
(* get_safe_filename.  A part is a record                                  *)
(*   [disp, filename, ctype, payload]                                      *)
(* filename is None when the part declares no filename.                    *)
(***************************************************************************)

\* mimetypes.guess_extension on the content types of the model
guess_extension(ctype) ==
    CASE ctype = "application/pdf" -> <<".", "p", "d", "f">>
      [] ctype = "image/png"       -> <<".", "p", "n", "g">>
      [] OTHER                     -> None

\* filename.replace('"', '').replace('\t', '')
RemoveQuotesAndTabs(s) == SelectSeq(s, LAMBDA c : c \notin {"\"", "\t"})

\* number of consecutive characters of s, from position j on, that are in set
RunLength(s, j, set) ==
    SetMax({k \in 0..(Len(s) + 1 - j) : \A m \in j..(j + k - 1) : s[m] \in set})

FilenameStar == <<"f", "i", "l", "e", "n", "a", "m", "e", "*">>

\* length of the match of  ;\s*filename\*\d*=  starting at position i, or 0
MatchLength(s, i) ==
    IF i > Len(s) \/ s[i] # ";" THEN 0
    ELSE LET w == RunLength(s, i + 1, Whitespace)
             a == i + 1 + w
             b == a + Len(FilenameStar)
         IN  IF b - 1 > Len(s) \/ SubSeq(s, a, b - 1) # FilenameStar THEN 0
             ELSE LET d == RunLength(s, b, Digits)
                  IN  IF b + d <= Len(s) /\ s[b + d] = "="
                      THEN b + d - i + 1
                      ELSE 0

\* re.sub(r';\s*filename\*\d*=', '', s)
RemoveContinuationMarkers(s) ==
    LET g[i \in 1..(Len(s) + 1)] ==
            IF i > Len(s) THEN << >>
            ELSE IF MatchLength(s, i) > 0
                 THEN g[i + MatchLength(s, i)]
                 ELSE <<s[i]>> \o g[i + 1]
    IN  g[1]

\* an absent filename treated as an empty one
NameAbsentAsEmpty(part) ==
    LET declared == IF part.filename = None THEN << >> ELSE part.filename
        filename == sanitize_foldername(
                        RemoveContinuationMarkers(RemoveQuotesAndTabs(declared)))
    IN  IF Suffix(filename) = << >> /\ guess_extension(part.ctype) # None
        THEN filename \o guess_extension(part.ctype)
        ELSE filename

\* the content-type extension appended whether or not the name has one
AlwaysAppendExtension(part) ==
    IF part.filename = None \/ part.filename = << >>
    THEN None
    ELSE LET filename == sanitize_foldername(
                 RemoveContinuationMarkers(RemoveQuotesAndTabs(part.filename)))
         IN  IF guess_extension(part.ctype) # None
             THEN filename \o guess_extension(part.ctype)
             ELSE filename

get_safe_filename(part) ==
    IF part.filename = None \/ part.filename = << >>
    THEN None
    ELSE LET filename == sanitize_foldername(
                 RemoveContinuationMarkers(RemoveQuotesAndTabs(part.filename)))
         IN  IF Suffix(filename) = << >> /\ guess_extension(part.ctype) # None
             THEN filename \o guess_extension(part.ctype)
             ELSE filename

(***************************************************************************)
(* The inputs of the model.                                                *)
(***************************************************************************)

MaxFiles == 3       \* length of eml_files
MaxAffix == 2       \* sanitizer harness: length of the varied head and tail
MaxCounter == 3     \* resolver harness: highest suffixed candidate that may exist
MaxRun == 11        \* resolver harness: longest unbroken run of existing candidates

Invoice == <<"I", "n", "v", "o", "i", "c", "e">>
Dots == <<".", ".", ".">>
DuplicatesName == <<"d", "u", "p", "l", "i", "c", "a", "t", "e", "s">>
FilePdf == <<"f", "i", "l", "e", ".", "p", "d", "f">>
Img == <<"i", "m", "g">>

\* the bytes left in a file whose write failed after it was opened
Truncated == 0

\* parts, as email_message.iter_attachments() yields them
Part(disp, filename, ctype, payload) ==
    [disp |-> disp, filename |-> filename, ctype |-> ctype, payload |-> payload]

PdfPart(payload) == Part("attachment", FilePdf, "application/pdf", payload)

UnnamedPart == Part("attachment", None, "application/pdf", 1)

InlinePart == Part("inline", Img, "image/png", 1)

DuplicatesPart == Part("attachment", DuplicatesName, "application/x-unknown", 2)

\* a readable message; subject is None when the Subject header is absent
Message(subject, parts) == [parse |-> "ok", subject |-> subject, parts |-> parts]

\* the .eml files main() may find: readable and parseable ones, one that
\* cannot be opened, and one whose reading raises UnicodeDecodeError
Messages ==
    {Message(Invoice, <<PdfPart(1)>>),
     Message(Invoice, <<PdfPart(2)>>),
     Message(Invoice, <<UnnamedPart, PdfPart(1), PdfPart(2)>>),
     Message(None, <<InlinePart>>),
     Message(None, <<InlinePart, PdfPart(1)>>),
     Message(Dots, <<DuplicatesPart>>),
     Message(DuplicatesName, <<PdfPart(2)>>),
     [parse |-> "oserror", subject |-> None, parts |-> << >>],
     [parse |-> "decodeerror", subject |-> None, parts |-> << >>]}

NoPart == Part("none", None, "none", 0)

NoMsg == [parse |-> "none", subject |-> None, parts |-> << >>]

\* no call of save_attachment
NoWrite ==
    [path |-> << >>, preferred |-> << >>, existed |-> FALSE, collided |-> FALSE,
     outcome |-> "none", payload |-> 0]

\* what the operating system does with one write: it succeeds, open() fails,
\* or write() fails after open() created the file
SaveOutcomes == {"ok", "open_fails", "write_fails"}

(***************************************************************************)
(* The filesystem.                                                         *)
(***************************************************************************)

\* Path.exists()
Exists(p) == p \in dirs \/ p \in DOMAIN files

ExistingPaths == dirs \cup DOMAIN files

\* Path.mkdir(parents=True, exist_ok=True) raises when the path or one of its
\* ancestors is a regular file, or when the operating system refuses
MkdirRaises(p, osOk) == ~osOk \/ (Prefixes(p) \cap DOMAIN files) # {}

\* the files after save_attachment(file, payload): lines 109-116
FilesAfterSave(file, payload, outcome) ==
    IF MkdirRaises(Parent(file), TRUE) \/ file \in dirs \/ outcome = "open_fails"
    THEN files
    ELSE [p \in DOMAIN files \cup {file} |->
             IF p = file
             THEN (IF outcome = "ok" THEN payload ELSE Truncated)
             ELSE files[p]]

\* whether save_attachment printed 'Saving attachment' without a later error
SaveSucceeds(file, outcome) ==
    ~MkdirRaises(Parent(file), TRUE) /\ file \notin dirs /\ outcome = "ok"

\* the lines save_attachment prints
SaveLines(file, outcome) ==
    IF SaveSucceeds(file, outcome) THEN <<"saving">>
    ELSE IF outcome = "write_fails" /\ ~MkdirRaises(Parent(file), TRUE)
              /\ file \notin dirs
         THEN <<"saving", "error_saving">>
         ELSE <<"error_saving">>

(***************************************************************************)
(* extract_attachments.                                                    *)
(***************************************************************************)

\* email_message.get('Subject', 'No Subject')
email_subject(m) == IF m.subject = None THEN NoSubject ELSE m.subject

\* line 31
basepath(m) == Join(<< >>, sanitize_foldername(email_subject(m)))

\* line 32
DuplicatesUnderBasepath(m) == Join(basepath(m), DuplicatesName)

duplicates_path(m) == Join(<< >>, DuplicatesName)

\* item.is_attachment()
AlwaysAttachment(part) == TRUE

is_attachment(part) == part.disp = "attachment"

\* line 34
attachments(m) == SelectSeq(m.parts, is_attachment)

\* line 44: if not filename
IsAbsent(filename) == filename = None \/ filename = << >>

\* line 52: filepath.exists()
NeverCollides(filepath) == FALSE

Collides(filepath) == Exists(filepath)

\* lines 35-40: the directories after the attachment list was examined
EagerBasepath(m) == dirs \cup Prefixes(basepath(m))

DirsAfterClassify(m) ==
    IF attachments(m) = << >> THEN dirs ELSE dirs \cup Prefixes(basepath(m))

\* line 28 raises OSError (the file cannot be opened): no handler catches it
OpenFails(m) ==
    /\ pc = "loop" /\ handled < MaxFiles
    /\ m.parse = "oserror"
    /\ handled' = handled + 1
    /\ out' = <<"processing">>
    /\ pc' = "crashed"
    /\ crash' = "open"
    /\ lastWrite' = NoWrite
    /\ UNCHANGED <<dirs, files, msg, idx>>

\* lines 59-62: UnicodeDecodeError is caught, the file is reopened in binary
\* mode and message_from_file, which expects text, raises TypeError on the
\* bytes it reads; that exception escapes
DecodeFallback(m) ==
    /\ pc = "loop" /\ handled < MaxFiles
    /\ m.parse = "decodeerror"
    /\ handled' = handled + 1
    /\ out' = <<"processing">>
    /\ pc' = "crashed"
    /\ crash' = "fallback_parse"
    /\ lastWrite' = NoWrite
    /\ UNCHANGED <<dirs, files, msg, idx>>

\* lines 26-40: the message is parsed, its attachments are listed and, when
\* there are any, basepath is created
ProcessFile(m, osOk) ==
    /\ pc = "loop" /\ handled < MaxFiles
    /\ m.parse = "ok"
    /\ handled' = handled + 1
    /\ lastWrite' = NoWrite
    /\ UNCHANGED files
    /\ IF attachments(m) = << >>
       THEN /\ out' = <<"processing", "no_attachments">>
            /\ dirs' = DirsAfterClassify(m)
            /\ UNCHANGED <<pc, msg, idx, crash>>
       ELSE IF MkdirRaises(basepath(m), osOk)
            THEN /\ out' = <<"processing">>
                 /\ pc' = "crashed"
                 /\ crash' = "mkdir_basepath"
                 /\ UNCHANGED <<dirs, msg, idx>>
            ELSE /\ out' = <<"processing">>
                 /\ dirs' = DirsAfterClassify(m)
                 /\ pc' = "attachments"
                 /\ msg' = m
                 /\ idx' = 1
                 /\ UNCHANGED crash

\* lines 42-58: one iteration of the for loop
ExtractAttachment(osOk, outcome) ==
    /\ pc = "attachments" /\ idx <= Len(attachments(msg))
    /\ UNCHANGED <<handled, msg>>
    /\ LET attachment == attachments(msg)[idx]
           filename == get_safe_filename(attachment)
           filepath == Join(basepath(msg), filename)
           dup == duplicates_path(msg)
       IN  IF IsAbsent(filename)
           THEN /\ out' = <<"found_none">>
                /\ idx' = idx + 1
                /\ lastWrite' = NoWrite
                /\ UNCHANGED <<dirs, files, pc, crash>>
           ELSE IF Collides(filepath)
                THEN IF dup \in DOMAIN files \/ ~osOk
                     THEN \* line 54 raises: nothing catches it
                          /\ out' = <<"found", "moving">>
                          /\ pc' = "crashed"
                          /\ crash' = "mkdir_duplicates"
                          /\ lastWrite' = NoWrite
                          /\ UNCHANGED <<dirs, files, idx>>
                     ELSE LET target == generate_unique_filename(
                                            Join(dup, filename),
                                            ExistingPaths \cup {dup})
                          IN  /\ dirs' = dirs \cup {dup}
                              /\ files' = FilesAfterSave(target, attachment.payload,
                                                         outcome)
                              /\ out' = <<"found", "moving">> \o SaveLines(target, outcome)
                              /\ lastWrite' =
                                     [path |-> target, preferred |-> filepath,
                                      existed |-> Exists(target), collided |-> TRUE,
                                      outcome |-> outcome,
                                      payload |-> attachment.payload]
                              /\ idx' = idx + 1
                              /\ UNCHANGED <<pc, crash>>
                ELSE /\ files' = FilesAfterSave(filepath, attachment.payload, outcome)
                     /\ out' = <<"found">> \o SaveLines(filepath, outcome)
                     /\ lastWrite' =
                            [path |-> filepath, preferred |-> filepath,
                             existed |-> Exists(filepath), collided |-> FALSE,
                             outcome |-> outcome, payload |-> attachment.payload]
                     /\ idx' = idx + 1
                     /\ UNCHANGED <<dirs, pc, crash>>

\* the for loop of line 42 is exhausted: extract_attachments returns
FinishFile ==
    /\ pc = "attachments" /\ idx > Len(attachments(msg))
    /\ pc' = "loop"
    /\ msg' = NoMsg
    /\ idx' = 0
    /\ out' = << >>
    /\ lastWrite' = NoWrite
    /\ UNCHANGED <<dirs, files, handled, crash>>

\* line 209: the for loop of line 207 is exhausted; eml_files is any list of
\* at most MaxFiles files, so the loop may end after any file
PrintDone ==
    /\ pc = "loop"
    /\ pc' = "done"
    /\ out' = <<"done">>
    /\ lastWrite' = NoWrite
    /\ UNCHANGED <<dirs, files, handled, msg, idx, crash>>

FsInit ==
    /\ dirs = {<< >>}
    /\ files = [p \in {} |-> Truncated]
    /\ pc = "loop"
    /\ msg = NoMsg
    /\ idx = 0
    /\ out = << >>
    /\ lastWrite = NoWrite
    /\ crash = "none"

SanOff == sanIn = << >> /\ sanOut = << >> /\ sanOut2 = << >> /\ sanStage = "off"

UqOff == uqPath = << >> /\ uqExisting = {} /\ uqResult = << >> /\ uqStage = "off"

NmOff == nmPart = NoPart /\ nmResult = << >> /\ nmStage = "off"

ParOff == workers = << >>

HarnessOff == SanOff /\ UqOff /\ NmOff /\ ParOff

Init ==
    /\ FsInit
    /\ handled = 0
    /\ HarnessOff

Next ==
    \/ \E m \in Messages : OpenFails(m) /\ UNCHANGED <<sanVars, uqVars, nmVars, parVars>>
    \/ \E m \in Messages : DecodeFallback(m) /\ UNCHANGED <<sanVars, uqVars, nmVars, parVars>>
    \/ \E m \in Messages, osOk \in BOOLEAN :
           ProcessFile(m, osOk) /\ UNCHANGED <<sanVars, uqVars, nmVars, parVars>>
    \/ \E osOk \in BOOLEAN, outcome \in SaveOutcomes :
           ExtractAttachment(osOk, outcome) /\ UNCHANGED <<sanVars, uqVars, nmVars, parVars>>
    \/ FinishFile /\ UNCHANGED <<sanVars, uqVars, nmVars, parVars>>
    \/ PrintDone /\ UNCHANGED <<sanVars, uqVars, nmVars, parVars>>

Spec == Init /\ [][Next]_vars

(***************************************************************************)
(* Harness for sanitize_foldername: the function is applied to a string,   *)
(* then to its own result.                                                 *)
(***************************************************************************)

\* a letter, the two stripped characters, a whitespace character that strip
\* leaves alone, and a reserved character
SanAlphabet == {"a", ".", " ", "\t", "/"}

SanAffixes == UNION {[1..n -> SanAlphabet] : n \in 0..MaxAffix}

\* n letters
Fill(n) == [i \in 1..n |-> "a"]

\* short strings and strings around the length limit
SanInputs ==
    {h \o Fill(n) \o t : h \in SanAffixes, t \in SanAffixes,
                         n \in {0, NameLimit - 1, NameLimit}}

SanInit ==
    /\ FsInit /\ handled = 0
    /\ sanIn \in SanInputs
    /\ sanOut = << >> /\ sanOut2 = << >> /\ sanStage = "input"
    /\ UqOff /\ NmOff /\ ParOff

SanitizeOnce ==
    /\ sanStage = "input"
    /\ sanOut' = sanitize_foldername(sanIn)
    /\ sanStage' = "once"
    /\ UNCHANGED <<sanIn, sanOut2>>

SanitizeTwice ==
    /\ sanStage = "once"
    /\ sanOut2' = sanitize_foldername(sanOut)
    /\ sanStage' = "twice"
    /\ UNCHANGED <<sanIn, sanOut>>

SanNext ==
    \/ SanitizeOnce /\ UNCHANGED <<fsVars, uqVars, nmVars, parVars>>
    \/ SanitizeTwice /\ UNCHANGED <<fsVars, uqVars, nmVars, parVars>>

SanSpec == SanInit /\ [][SanNext]_vars

(***************************************************************************)
(* Harness for generate_unique_filename: the function is called on a path  *)
(* of the duplicates folder with some of its candidates existing.          *)
(***************************************************************************)

\* file names given as the stem and the extension pathlib splits them into
UqNames ==
    {[stem |-> <<"f", "i", "l", "e">>, ext |-> <<".", "p", "d", "f">>],
     [stem |-> Img, ext |-> << >>],
     [stem |-> <<"a", ".", "b">>, ext |-> <<".", "c">>],
     [stem |-> <<".", "r", "c">>, ext |-> << >>]}

UqPathOf(n) == <<DuplicatesName, n.stem \o n.ext>>

\* the k-th suffixed name of n, spelled out: <stem>_<k><extension>
UqSuffixed(n, k) == <<DuplicatesName, n.stem \o <<"_">> \o IntToStr(k) \o n.ext>>

\* any subset of the path and its first MaxCounter suffixed names, or the path
\* and an unbroken run of its suffixed names
UqExistingSets(n) ==
    SUBSET ({UqPathOf(n)} \cup {UqSuffixed(n, k) : k \in 1..MaxCounter})
    \cup {{UqPathOf(n)} \cup {UqSuffixed(n, k) : k \in 1..r} : r \in 0..MaxRun}

UqInit ==
    /\ FsInit /\ handled = 0
    /\ SanOff /\ NmOff /\ ParOff
    /\ \E n \in UqNames :
           /\ uqPath = UqPathOf(n)
           /\ uqExisting \in UqExistingSets(n)
    /\ uqResult = << >> /\ uqStage = "input"

CallGenerateUnique ==
    /\ uqStage = "input"
    /\ uqResult' = generate_unique_filename(uqPath, uqExisting)
    /\ uqStage' = "called"
    /\ UNCHANGED <<uqPath, uqExisting>>

UqNext == CallGenerateUnique /\ UNCHANGED <<fsVars, sanVars, nmVars, parVars>>

UqSpec == UqInit /\ [][UqNext]_vars

(***************************************************************************)
(* Harness for get_safe_filename: the function is called on a part that    *)
(* declares a filename.                                                    *)
(***************************************************************************)

\* declared stems with the text the cleaning and the sanitizer leave of them:
\* plain, quoted, with a continuation marker, with a reserved character, with
\* a tab
NmStems ==
    {[raw |-> Img, clean |-> Img],
     [raw |-> <<"\"", "a", " ", "b", "\"">>, clean |-> <<"a", " ", "b">>],
     [raw |-> <<"r", ";", "f", "i", "l", "e", "n", "a", "m", "e", "*", "1", "=",
                "p", "t">>,
      clean |-> <<"r", "p", "t">>],
     [raw |-> <<"a", ":", "b">>, clean |-> <<"a", "_", "b">>],
     [raw |-> <<"a", "\t", "b">>, clean |-> <<"a", "b">>]}

\* declared endings with what the sanitizer leaves of them and whether pathlib
\* then sees an extension
NmEndings ==
    {[raw |-> << >>, clean |-> << >>, has |-> FALSE],
     [raw |-> <<".">>, clean |-> << >>, has |-> FALSE],
     [raw |-> <<".", "p", "d", "f">>, clean |-> <<".", "p", "d", "f">>, has |-> TRUE],
     [raw |-> <<".", "c">>, clean |-> <<".", "c">>, has |-> TRUE],
     [raw |-> <<".", "t", "a", "r", ".", "g", "z">>,
      clean |-> <<".", "t", "a", "r", ".", "g", "z">>, has |-> TRUE]}

NmContentTypes == {"application/pdf", "image/png", "application/x-unknown"}

NmPartOf(n, e, ctype) == Part("attachment", n.raw \o e.raw, ctype, 1)

NmInit ==
    /\ FsInit /\ handled = 0
    /\ SanOff /\ UqOff /\ ParOff
    /\ \E n \in NmStems, e \in NmEndings, ctype \in NmContentTypes :
           nmPart = NmPartOf(n, e, ctype)
    /\ nmResult = << >> /\ nmStage = "input"

CallGetSafeFilename ==
    /\ nmStage = "input"
    /\ nmResult' = get_safe_filename(nmPart)
    /\ nmStage' = "called"
    /\ UNCHANGED nmPart

NmNext == CallGetSafeFilename /\ UNCHANGED <<fsVars, sanVars, uqVars, parVars>>

NmSpec == NmInit /\ [][NmNext]_vars

(***************************************************************************)
(* Parallel run: every worker runs extract_attachments on one message at a *)
(* time, and two workers never handle the same output folder at once.  The *)
(* statements of one worker interleave with those of the other between the *)
(* existence check and the write.                                          *)
(***************************************************************************)

NWorkers == 2

Workers == 1..NWorkers

\* number of .eml files handed to the workers
MaxParFiles == 2

\* the .eml files of a parallel run: two messages for the same folder, one for
\* another folder, one whose folder is the duplicates folder itself
ParMessages ==
    {Message(Invoice, <<PdfPart(1), PdfPart(2)>>),
     Message(Invoice, <<UnnamedPart, PdfPart(1), PdfPart(2)>>),
     Message(None, <<PdfPart(1), PdfPart(2)>>),
     Message(DuplicatesName, <<PdfPart(2)>>),
     Message(Dots, <<DuplicatesPart>>)}

\* a worker that runs no pipeline
Idle ==
    [pc |-> "idle", msg |-> NoMsg, idx |-> 0, target |-> << >>,
     preferred |-> << >>, collided |-> FALSE]

\* at most one worker at a time for each output folder
Serialised(w, m) ==
    \A v \in Workers \ {w} :
        workers[v].pc # "idle" => basepath(workers[v].msg) # basepath(m)

\* lines 49-55: the path the attachment is going to be written to
PreferredPath(filepath, filename, dup) == filepath

ResolvedPath(filepath, filename, dup) ==
    IF Collides(filepath)
    THEN generate_unique_filename(Join(dup, filename), ExistingPaths \cup {dup})
    ELSE filepath

\* lines 26-40 run by worker w; an exception ends the pipeline
ParStart(w, m) ==
    /\ workers[w].pc = "idle" /\ handled < MaxParFiles
    /\ m.parse = "ok"
    /\ Serialised(w, m)
    /\ handled' = handled + 1
    /\ lastWrite' = NoWrite
    /\ UNCHANGED files
    /\ IF attachments(m) = << >> \/ MkdirRaises(basepath(m), TRUE)
       THEN UNCHANGED <<dirs, workers>>
       ELSE /\ dirs' = DirsAfterClassify(m)
            /\ workers' = [workers EXCEPT ![w] =
                              [Idle EXCEPT !.pc = "check", !.msg = m, !.idx = 1]]

\* lines 43-55 run by worker w: the name is derived, the existence of the
\* preferred path is checked and, on a collision, the duplicates folder is
\* created and a free name is resolved in it
ParCheck(w) ==
    /\ workers[w].pc = "check"
    /\ workers[w].idx <= Len(attachments(workers[w].msg))
    /\ lastWrite' = NoWrite
    /\ UNCHANGED <<files, handled>>
    /\ LET m == workers[w].msg
           attachment == attachments(m)[workers[w].idx]
           filename == get_safe_filename(attachment)
           filepath == Join(basepath(m), filename)
           dup == duplicates_path(m)
       IN  IF IsAbsent(filename)
           THEN /\ workers' = [workers EXCEPT ![w].idx = @ + 1]
                /\ UNCHANGED dirs
           ELSE IF Collides(filepath) /\ dup \in DOMAIN files
                THEN \* line 54 raises
                     /\ workers' = [workers EXCEPT ![w] = Idle]
                     /\ UNCHANGED dirs
                ELSE /\ dirs' = IF Collides(filepath) THEN dirs \cup {dup} ELSE dirs
                     /\ workers' = [workers EXCEPT
                            ![w].pc = "write",
                            ![w].target = ResolvedPath(filepath, filename, dup),
                            ![w].preferred = filepath,
                            ![w].collided = Collides(filepath)]

\* lines 56 and 58 run by worker w: save_attachment on the path resolved before
ParWrite(w, outcome) ==
    /\ workers[w].pc = "write"
    /\ LET m == workers[w].msg
           attachment == attachments(m)[workers[w].idx]
           target == workers[w].target
       IN  /\ files' = FilesAfterSave(target, attachment.payload, outcome)
           /\ lastWrite' =
                  [path |-> target, preferred |-> workers[w].preferred,
                   existed |-> Exists(target), collided |-> workers[w].collided,
                   outcome |-> outcome, payload |-> attachment.payload]
    /\ workers' = [workers EXCEPT ![w].pc = "check", ![w].idx = @ + 1,
                                  ![w].target = << >>, ![w].preferred = << >>,
                                  ![w].collided = FALSE]
    /\ UNCHANGED <<dirs, handled>>

\* the for loop of line 42 is exhausted in worker w
ParFinish(w) ==
    /\ workers[w].pc = "check"
    /\ workers[w].idx > Len(attachments(workers[w].msg))
    /\ workers' = [workers EXCEPT ![w] = Idle]
    /\ lastWrite' = NoWrite
    /\ UNCHANGED <<dirs, files, handled>>

ParInit ==
    /\ FsInit /\ handled = 0
    /\ SanOff /\ UqOff /\ NmOff
    /\ workers = [w \in Workers |-> Idle]

ParNext ==
    \/ \E w \in Workers, m \in ParMessages :
           ParStart(w, m) /\ UNCHANGED <<pc, msg, idx, out, crash, sanVars, uqVars, nmVars>>
    \/ \E w \in Workers :
           ParCheck(w) /\ UNCHANGED <<pc, msg, idx, out, crash, sanVars, uqVars, nmVars>>
    \/ \E w \in Workers, outcome \in SaveOutcomes :
           ParWrite(w, outcome) /\ UNCHANGED <<pc, msg, idx, out, crash, sanVars, uqVars, nmVars>>
    \/ \E w \in Workers :
           ParFinish(w) /\ UNCHANGED <<pc, msg, idx, out, crash, sanVars, uqVars, nmVars>>

ParSpec == ParInit /\ [][ParNext]_vars

(***************************************************************************)
(* Sequential run on a healthy filesystem: every file opens and parses,    *)
(* the operating system refuses no mkdir and every write succeeds.         *)
(***************************************************************************)

CleanNext ==
    \/ \E m \in Messages :
           ProcessFile(m, TRUE) /\ UNCHANGED <<sanVars, uqVars, nmVars, parVars>>
    \/ ExtractAttachment(TRUE, "ok") /\ UNCHANGED <<sanVars, uqVars, nmVars, parVars>>
    \/ FinishFile /\ UNCHANGED <<sanVars, uqVars, nmVars, parVars>>
    \/ PrintDone /\ UNCHANGED <<sanVars, uqVars, nmVars, parVars>>

CleanSpec == Init /\ [][CleanNext]_vars

(***************************************************************************)
(* Properties.                                                             *)
(***************************************************************************)

\* C1: no write of an attachment targets a path that exists: every call of
\* save_attachment is made on a path that did not exist before it, and every
\* file, once written, keeps its bytes for the rest of the run.
NoOverwrite ==
    [][/\ \A p \in DOMAIN files : p \in DOMAIN files' /\ files'[p] = files[p]
       /\ lastWrite' # NoWrite => ~lastWrite'.existed]_vars

\* a later attachment of the same name was written to a fresh path while the
\* primary path kept the other bytes written there first
LaterDuplicateWritten ==
    /\ lastWrite.collided
    /\ lastWrite.outcome = "ok"
    /\ lastWrite.preferred \in DOMAIN files
    /\ files[lastWrite.preferred] \notin {lastWrite.payload, Truncated}
    /\ files[lastWrite.path] = lastWrite.payload

UniqueResult ==
    uqStage = "called" =>
        /\ uqResult \notin uqExisting
        /\ uqPath \notin uqExisting => uqResult = uqPath
        /\ uqPath \in uqExisting =>
               \E n \in UqNames :
                   /\ uqPath = UqPathOf(n)
                   /\ \E k \in 1..(MaxRun + 1) :
                          /\ uqResult = UqSuffixed(n, k)
                          /\ \A j \in 1..(k - 1) : UqSuffixed(n, j) \in uqExisting

\* file.pdf and file_1.pdf exist, file_2.pdf is free and is returned
SecondSuffixReturned ==
    /\ uqStage = "called"
    /\ uqPath = <<DuplicatesName, FilePdf>>
    /\ uqPath \in uqExisting
    /\ <<DuplicatesName, <<"f", "i", "l", "e", "_", "1", ".", "p", "d", "f">>>>
           \in uqExisting
    /\ uqResult = <<DuplicatesName, <<"f", "i", "l", "e", "_", "2", ".", "p", "d", "f">>>>

\* C4: processing a message whose attachment list is empty creates no
\* directory, writes no file, prints 'No attachments found.' and returns to
\* the batch loop.
NoAttachmentNoEffect ==
    [][\A m \in Messages :
           (/\ m.parse = "ok"
            /\ attachments(m) = << >>
            /\ \E osOk \in BOOLEAN : ProcessFile(m, osOk))
           => /\ dirs' = dirs
              /\ files' = files
              /\ out' = <<"processing", "no_attachments">>
              /\ pc' = "loop"]_vars

\* a message without attachments was processed after another message had
\* created its folder
NoAttachmentProcessed ==
    /\ out = <<"processing", "no_attachments">>
    /\ handled >= 2
    /\ <<NoSubject>> \notin dirs
    /\ dirs # {<< >>}

\* C5: a message that cannot be read or parsed is reported and skipped: no
\* exception of the parsing escapes extract_attachments.
ParseFailureIsolated ==
    ~(pc = "crashed" /\ crash \in {"open", "fallback_parse"})

\* C6: a failure to create the output folder or the duplicates folder is
\* caught and reported, and does not stop the batch.
FolderFailureIsolated ==
    ~(pc = "crashed" /\ crash \in {"mkdir_basepath", "mkdir_duplicates"})

\* C7: for an attachment that declares no filename, get_safe_filename yields
\* None, nothing is written or created, and the loop goes on to the next
\* attachment.
UnnamedSkipped ==
    [][(/\ pc = "attachments"
        /\ idx <= Len(attachments(msg))
        /\ attachments(msg)[idx].filename = None
        /\ idx' # idx)
       => /\ get_safe_filename(attachments(msg)[idx]) = None
          /\ files' = files
          /\ dirs' = dirs
          /\ lastWrite' = NoWrite
          /\ pc' = "attachments"
          /\ idx' = idx + 1]_vars

\* an unnamed attachment was skipped and its sibling was then written
SiblingWrittenAfterUnnamed ==
    /\ pc = "attachments"
    /\ idx = 3
    /\ attachments(msg)[1].filename = None
    /\ lastWrite.outcome = "ok"
    /\ files[lastWrite.path] = attachments(msg)[2].payload

\* C8: the result of sanitize_foldername contains no reserved character, has
\* no leading or trailing space, no trailing period, and at most NameLimit
\* characters.
SanitizerOutputSafe ==
    sanStage \in {"once", "twice"} =>
        /\ \A i \in 1..Len(sanOut) : sanOut[i] \notin IllegalChars
        /\ Len(sanOut) <= NameLimit
        /\ sanOut # << >> =>
               /\ sanOut[1] # " "
               /\ sanOut[Len(sanOut)] \notin {" ", "."}

\* C9: sanitize_foldername(sanitize_foldername(x)) = sanitize_foldername(x).
SanitizerIdempotent ==
    sanStage = "twice" => sanOut2 = sanOut

\* C10: every file written lies below the destination in a folder, never in
\* the destination itself, and no component of its path is empty.
OutputLocationShape ==
    \A p \in DOMAIN files :
        /\ Len(p) >= 2
        /\ \A i \in 1..Len(p) : p[i] # << >>

ExtensionInferred ==
    nmStage = "called" =>
        \A n \in NmStems, e \in NmEndings, ctype \in NmContentTypes :
            nmPart = NmPartOf(n, e, ctype) =>
                nmResult =
                    IF e.has \/ guess_extension(ctype) = None
                    THEN n.clean \o e.clean
                    ELSE n.clean \o e.clean \o guess_extension(ctype)

\* img declared as image/png became img.png
PngExtensionAppended ==
    /\ nmStage = "called"
    /\ nmPart.filename = Img
    /\ nmPart.ctype = "image/png"
    /\ nmResult = <<"i", "m", "g", ".", "p", "n", "g">>

\* C13: the duplicates folder comes into existence only in a step that found
\* an attachment's preferred path already existing.
LazyDuplicatesFolder ==
    [][(<<DuplicatesName>> \notin dirs /\ <<DuplicatesName>> \in dirs')
           => lastWrite'.collided]_vars

\* C14: a run stops only after it printed the completion marker 'Done.',
\* however many messages or attachments failed: at any moment main() is in
\* its loop over the files, inside extract_attachments, or done.
RunStopsOnlyWhenDone == pc \in {"loop", "attachments", "done"}

AttachmentsConserved ==
    [][/\ \A p \in DOMAIN files : p \in DOMAIN files' /\ files'[p] = files[p]
       /\ IF pc = "attachments" /\ idx <= Len(attachments(msg))
               /\ ~IsAbsent(get_safe_filename(attachments(msg)[idx]))
          THEN \E p \in DOMAIN files' :
                   /\ p \notin ExistingPaths
                   /\ DOMAIN files' = DOMAIN files \cup {p}
                   /\ files'[p] = attachments(msg)[idx].payload
          ELSE DOMAIN files' = DOMAIN files]_vars

====
